---- MODULE Spec2Model ----
(***************************************************************************)
(* netbattleship: two peers, each with a fleet board and an opponent-      *)
(* knowledge board, exchanging Fire / DidHit / Sunk / Finished frames.     *)
(*                                                                         *)
(* Two front-ends of the same protocol are modelled over the same state:   *)
(*   - the async engine GameFlow (src/src/flow2.rs): place_ship, fire,     *)
(*     receive, driven call by call by a front-end;                        *)
(*   - the threaded worker GameFlowServer::game_flow (src/src/flow.rs):    *)
(*     handshake, ship_placement, game_loop, and the NewPhase events it    *)
(*     sends to the mailbox of its front-end.                              *)
(* Ship::place, Ship::len, Board::contains are shared (src/src/ship.rs,    *)
(* src/src/board.rs).                                                      *)
(***************************************************************************)
EXTENDS Integers, Sequences, FiniteSets, TLC

VARIABLES
    game,    \* game[p]: the Game struct of peer p (board[0..1], turn, you, phase)
    net,     \* net[p]: frames written to the stream and not yet read by p
    pc,      \* pc[p]: where peer p's engine call / worker thread stands
    loc,     \* loc[p]: locals of the call in progress (aim, hit, sunk)
    ret,     \* the last completed engine call and what it returned
    build,   \* "debug" (u8 overflow panics) or "release" (u8 overflow wraps)
    version, \* version[p]: the protocol version constant of peer p's build
    wire,    \* wire[p]: the bytes of p's stream (followed in codec sessions)
    placed,  \* history: coordinates at which p's Ship::place put a ship cell
    shots,   \* history: coordinates of the Fire frames p has answered
    offscan, \* history: how many Fire commands off ScanOrder p's front-end sent
    tx,      \* tx[p]: the NewPhase events worker p sent that were not yet taken
    ui,      \* ui[p]: "recv" if p's front-end takes events from rx, else "idle"
    outcome  \* outcome[p]: the Won(b) event worker p sent ("none" before it)

vars == <<game, net, pc, loc, ret, build, version, wire, placed, shots,
          offscan, tx, ui, outcome>>

Peers == {"srv", "cli"}

Other(p) == IF p = "srv" THEN "cli" ELSE "srv"

(***************************************************************************)
(* Ship catalog (src/src/ship.rs)                                          *)
(***************************************************************************)
\* Ship::into_iter: the five kinds in placement order
ShipOrder == <<"Carrier", "Battleship", "Cruiser", "Submarine", "Destroyer">>

Kinds == {ShipOrder[i] : i \in 1..Len(ShipOrder)}

\* every variant of enum Ship
Markers == Kinds \cup {"None", "Miss", "Hit"}

\* Ship::len
ShipLen(s) ==
    CASE s = "Carrier" -> 5
      [] s = "Battleship" -> 4
      [] s \in {"Cruiser", "Submarine"} -> 3
      [] s = "Destroyer" -> 2
      [] OTHER -> 0

\* Ship::is_empty
IsEmpty(s) == ShipLen(s) = 0

\* the literal 10 of the bounds test of Ship::place
Grid == 10

\* u8 arithmetic of a release build
U8Mod == 256

Wrap(n) == n % U8Mod

(***************************************************************************)
(* Board (src/src/board.rs): BTreeMap<(u8, u8), Ship>; absent = water      *)
(***************************************************************************)
EmptyBoard == [c \in {} |-> "None"]

\* BTreeMap::insert
Insert(b, pos, m) == [c \in (DOMAIN b) \cup {pos} |-> IF c = pos THEN m ELSE b[c]]

\* BTreeMap::get(..).is_some()
Occupied(b, pos) == pos \in DOMAIN b

\* Board::contains
Contains(b, ship) == \E c \in DOMAIN b : b[c] = ship

\* cursor.1 += 1 if v, cursor.0 += 1 otherwise (wrapping: release build)
Advance(cursor, v) ==
    IF v THEN <<cursor[1], Wrap(cursor[2] + 1)>>
         ELSE <<Wrap(cursor[1] + 1), cursor[2]>>

\* first loop of Ship::place: no cell of the span has an entry
RECURSIVE SpanFree(_, _, _, _)
SpanFree(b, cursor, n, v) ==
    IF n = 0 THEN TRUE
    ELSE IF Occupied(b, cursor) THEN FALSE
    ELSE SpanFree(b, Advance(cursor, v), n - 1, v)

\* second loop of Ship::place: insert the kind at every cell of the span
RECURSIVE SpanCommit(_, _, _, _, _)
SpanCommit(b, cursor, n, v, ship) ==
    IF n = 0 THEN b
    ELSE SpanCommit(Insert(b, cursor, ship), Advance(cursor, v), n - 1, v, ship)

\* the coordinate of pos on the travel axis
Travel(pos, v) == IF v THEN pos[2] ELSE pos[1]

\* `10 - pos.0` / `10 - pos.1` in u8: overflows when the coordinate exceeds 10
SubOverflows(pos, v) == Travel(pos, v) > Grid

\* (!v && len > 10 - pos.0) || (v && len > 10 - pos.1), wrapping
OutOfBounds(ship, pos, v) == ShipLen(ship) > Wrap(Grid - Travel(pos, v) + U8Mod)

\* Ship::place with its two loops fused: each cell is inserted as soon as it
\* is found free, so a span blocked further on leaves its first cells behind
RECURSIVE SpanCheckAndCommit(_, _, _, _, _)
SpanCheckAndCommit(b, cursor, n, v, ship) ==
    IF n = 0 THEN [ok |-> "true", board |-> b]
    ELSE IF Occupied(b, cursor) THEN [ok |-> "false", board |-> b]
    ELSE SpanCheckAndCommit(Insert(b, cursor, ship), Advance(cursor, v), n - 1, v, ship)

PlaceOnePass(ship, b, pos, v, bld) ==
    IF bld = "debug" /\ SubOverflows(pos, v)
    THEN [ok |-> "panic", board |-> b]
    ELSE IF OutOfBounds(ship, pos, v)
    THEN [ok |-> "false", board |-> b]
    ELSE SpanCheckAndCommit(b, pos, ShipLen(ship), v, ship)

\* Ship::place without its first loop: occupied cells are overwritten
PlaceUnchecked(ship, b, pos, v, bld) ==
    IF bld = "debug" /\ SubOverflows(pos, v)
    THEN [ok |-> "panic", board |-> b]
    ELSE IF OutOfBounds(ship, pos, v)
    THEN [ok |-> "false", board |-> b]
    ELSE [ok |-> "true", board |-> SpanCommit(b, pos, ShipLen(ship), v, ship)]

\* Ship::place: [ok |-> "true" | "false" | "panic", board |-> the board after]
Place(ship, b, pos, v, bld) ==
    IF bld = "debug" /\ SubOverflows(pos, v)
    THEN [ok |-> "panic", board |-> b]
    ELSE IF OutOfBounds(ship, pos, v)
    THEN [ok |-> "false", board |-> b]
    ELSE IF ~SpanFree(b, pos, ShipLen(ship), v)
    THEN [ok |-> "false", board |-> b]
    ELSE [ok |-> "true", board |-> SpanCommit(b, pos, ShipLen(ship), v, ship)]

\* the cells of the span of a placement
RECURSIVE SpanCells(_, _, _)
SpanCells(cursor, n, v) ==
    IF n = 0 THEN {}
    ELSE {cursor} \cup SpanCells(Advance(cursor, v), n - 1, v)

(***************************************************************************)
(* Game, Phase, Msg                                                        *)
(***************************************************************************)
Placing(k) == [t |-> "Placing", k |-> k]
Playing == [t |-> "Playing", k |-> "None"]
Connecting == [t |-> "Connecting", k |-> "None"]
\* Phase::Done(won) of the engine's front-ends
Done(won) == [t |-> "Done", k |-> IF won THEN "Won" ELSE "Lost"]
\* Phase::Done of the threaded worker
DoneT == [t |-> "Done", k |-> "None"]

\* usize::from(game.you)
Own(g) == IF g.you THEN 1 ELSE 0

\* the knowledge-board index without the `1 ^`
EnemyIsOwn(g) == Own(g)

\* 1 ^ usize::from(game.you)
Enemy(g) == 1 - Own(g)

Fleet(p) == game[p].board[Own(game[p])]
Knowledge(p) == game[p].board[Enemy(game[p])]

\* GameFlow::my_turn / the test at the top of game_loop
MyTurn(g) == g.turn = g.you

MsgFire(pos) == [t |-> "Fire", x |-> pos[1], y |-> pos[2]]
MsgDidHit(b) == [t |-> "DidHit", b |-> b]
MsgSunk(s) == [t |-> "Sunk", s |-> s]
MsgFinished == [t |-> "Finished"]
MsgNotFinished == [t |-> "NotFinished"]
MsgHello(ver) == [t |-> "Hello", ver |-> ver]

\* UiMsg::NewPhase, with the phase it announces: the phase the worker
\* stores next to the send
NewPhase(ph) == [t |-> "NewPhase", phase |-> ph]

\* tx.send(UiMsg::NewPhase): the events appended to the worker's mailbox
Notify(mail, p, phs) ==
    [mail EXCEPT ![p] = @ \o [i \in 1..Len(phs) |-> NewPhase(phs[i])]]

\* write_to / write_to_async: one frame appended to the peer's stream
Send(n, to, m) == [n EXCEPT ![to] = Append(@, m)]

NoLoc == [aim |-> <<0, 0>>, hit |-> FALSE, sunk |-> "None"]

\* ret: the peer, the operation, its result, the kind and orientation
\* (place_ship) or the aim (fire, receive), the fields of TurnResults, and
\* the message a BadMessage error carries; an OutOfOrder result records
\* neither orientation nor aim
NoRet == [p |-> "none", op |-> "none", res |-> "none", kind |-> "None",
          v |-> FALSE, pos |-> <<0, 0>>, hit |-> "None", sunk |-> "None",
          won |-> FALSE, msg |-> "none"]

(***************************************************************************)
(* Framing (src/src/net.rs): serde_cbor::to_vec(value), then b"\n"          *)
(***************************************************************************)
\* b"\n", the frame terminator
Newline == 10

\* the UTF-8 bytes of a variant name
NameBytes(name) ==
    CASE name = "Hello" -> <<72, 101, 108, 108, 111>>
      [] name = "NotFinished" -> <<78, 111, 116, 70, 105, 110, 105, 115, 104, 101, 100>>
      [] name = "Finished" -> <<70, 105, 110, 105, 115, 104, 101, 100>>
      [] name = "DidHit" -> <<68, 105, 100, 72, 105, 116>>
      [] name = "Fire" -> <<70, 105, 114, 101>>
      [] name = "Sunk" -> <<83, 117, 110, 107>>
      [] name = "None" -> <<78, 111, 110, 101>>
      [] name = "Miss" -> <<77, 105, 115, 115>>
      [] name = "Hit" -> <<72, 105, 116>>
      [] name = "Carrier" -> <<67, 97, 114, 114, 105, 101, 114>>
      [] name = "Battleship" -> <<66, 97, 116, 116, 108, 101, 115, 104, 105, 112>>
      [] name = "Cruiser" -> <<67, 114, 117, 105, 115, 101, 114>>
      [] name = "Submarine" -> <<83, 117, 98, 109, 97, 114, 105, 110, 101>>
      [] name = "Destroyer" -> <<68, 101, 115, 116, 114, 111, 121, 101, 114>>

\* CBOR unsigned integer (major type 0): the value itself below 24, else a
\* head byte 24, 25 or 26 and the value in 1, 2 or 4 big-endian bytes
CborUint(n) ==
    IF n < 24 THEN <<n>>
    ELSE IF n < 256 THEN <<24, n>>
    ELSE IF n < 65536 THEN <<25, n \div 256, n % 256>>
    ELSE <<26, (n \div 16777216) % 256, (n \div 65536) % 256,
               (n \div 256) % 256, n % 256>>

\* CBOR text string (major type 3) of fewer than 24 bytes
CborText(name) == <<96 + Len(NameBytes(name))>> \o NameBytes(name)

\* serde_cbor::to_vec of a Msg: a unit variant is its name; a variant with a
\* payload is a map of one entry from its name to the payload, the payload
\* of Fire being an array of two
Encode(m) ==
    CASE m.t = "Hello" -> <<161>> \o CborText("Hello") \o CborUint(m.ver)
      [] m.t = "Fire" -> <<161>> \o CborText("Fire") \o <<130>>
                             \o CborUint(m.x) \o CborUint(m.y)
      [] m.t = "DidHit" -> <<161>> \o CborText("DidHit")
                             \o <<IF m.b THEN 245 ELSE 244>>
      [] m.t = "Sunk" -> <<161>> \o CborText("Sunk") \o CborText(m.s)
      [] OTHER -> CborText(m.t)

\* write_to / write_to_async on the wire: the encoding, then the terminator
WireFrame(m) == Encode(m) \o <<Newline>>

\* the versions and coordinates of the messages a codec session writes
VersionSamples == {0, 1, 9, 10, 23, 24, 255, 256, 266, 2570, 65536}
CoordSamples == {0, 5, 9}

\* enum Msg over the sampled payloads
Catalog ==
    {MsgHello(v) : v \in VersionSamples}
        \cup {MsgFire(<<x, y>>) : x \in CoordSamples, y \in CoordSamples}
        \cup {MsgDidHit(b) : b \in BOOLEAN}
        \cup {MsgSunk(k) : k \in Markers}
        \cup {MsgFinished, MsgNotFinished}

Malformed == [t |-> "Malformed"]

\* serde_cbor::from_slice: the message of which d is the encoding; an
\* incomplete or empty item is an error
Decode(d) ==
    LET ms == {m \in Catalog : Encode(m) = d}
    IN IF ms = {} THEN Malformed ELSE CHOOSE m \in ms : TRUE

\* take_while(|c| *c != b'\n') / the loop of read_from_async: the index at
\* which reading a frame stops
FrameEnd(w) ==
    CHOOSE i \in 1..(Len(w) + 1) :
        /\ i = Len(w) + 1 \/ w[i] = Newline
        /\ \A j \in 1..(i - 1) : w[j] /= Newline

\* the bytes handed to from_slice, and the bytes left in the stream
Payload(w) == SubSeq(w, 1, FrameEnd(w) - 1)
Rest(w) == SubSeq(w, FrameEnd(w) + 1, Len(w))

\* how many frames a codec session leaves unread in a stream
MaxFrames == 1

\* write_to: the server end writes one message of the catalog
WriteTo(p, m) ==
    /\ pc[p] = "codec_write"
    /\ Len(net[Other(p)]) < MaxFrames
    /\ net' = Send(net, Other(p), m)
    /\ wire' = [wire EXCEPT ![Other(p)] = @ \o WireFrame(m)]
    /\ UNCHANGED <<game, pc, loc, ret, build, version, tx, ui, outcome, placed, shots, offscan>>

\* read_from: the client end reads one frame; from_slice(..).unwrap()
\* panics on an error
ReadFrom(p) ==
    LET m == Decode(Payload(wire[p]))
    IN /\ pc[p] = "codec_read"
       /\ wire[p] /= <<>>
       /\ wire' = [wire EXCEPT ![p] = Rest(@)]
       /\ net' = [net EXCEPT ![p] = Tail(@)]
       /\ ret' = [NoRet EXCEPT !.p = p, !.op = "read_from", !.msg = m,
                               !.res = IF m = Malformed THEN "panic" ELSE "Ok"]
       /\ pc' = [pc EXCEPT ![p] = IF m = Malformed THEN "panicked" ELSE @]
       /\ UNCHANGED <<game, loc, build, version, tx, ui, outcome, placed, shots, offscan>>

(***************************************************************************)
(* The async engine GameFlow (src/src/flow2.rs)                            *)
(***************************************************************************)
\* GameFlow::new: Game { you: serve, phase: Placing(first kind), ..default }
NewGame(serve) ==
    [board |-> [i \in 0..1 |-> EmptyBoard], turn |-> FALSE, you |-> serve,
     phase |-> Placing(ShipOrder[1])]

\* Iterator::skip_while over Ship::into_iter: drop the kinds before k
RECURSIVE SkipWhileNot(_, _)
SkipWhileNot(seq, k) ==
    IF seq = <<>> THEN <<>>
    ELSE IF Head(seq) /= k THEN SkipWhileNot(Tail(seq), k)
    ELSE seq

\* the phase place_ship assigns after a successful placement in Placing(k):
\* into_iter().skip_while(|a| a != k).map(Placing).next().unwrap_or(Playing)
PhaseAfterPlacing(k) ==
    LET rest == SkipWhileNot(ShipOrder, k)
    IN IF rest = <<>> THEN Playing ELSE Placing(Head(rest))

\* the inputs a front-end passes to place_ship: (column, row, vertical)
PlaceArgs ==
    { <<0, 4, FALSE>>, <<0, 0, TRUE>>, <<6, 0, FALSE>>, <<11, 0, FALSE>>,
      <<0, 12, FALSE>> }

\* the targets a front-end passes to fire
Targets == { <<8, 4>>, <<9, 4>>, <<5, 0>>, <<0, 0>> }

\* the match of place_ship without its `if s == ship` guard
PlacingAny(phase, ship) == phase.t = "Placing"

\* place_ship: `match self.phase() { Phase::Placing(s) if s == ship => {} .. }`
PlacingThis(phase, ship) == phase = Placing(ship)

\* GameFlow::place_ship; Ship::place works on the fleet board in place, so
\* the board it leaves is the board of the engine whatever it returns
PlaceShip(p, ship, a) ==
    LET g == game[p]
        pos == <<a[1], a[2]>>
        r == Place(ship, g.board[Own(g)], pos, a[3], build)
        call == [NoRet EXCEPT !.p = p, !.op = "place_ship", !.kind = ship,
                              !.v = a[3]]
    IN /\ pc[p] = "idle"
       /\ IF ~PlacingThis(g.phase, ship)
          THEN /\ ret' = [call EXCEPT !.res = "OutOfOrder", !.v = FALSE]
               /\ UNCHANGED <<game, net, pc, placed>>
          ELSE IF r.ok = "panic"
          THEN /\ pc' = [pc EXCEPT ![p] = "panicked"]
               /\ ret' = [call EXCEPT !.res = "panic"]
               /\ game' = [game EXCEPT ![p].board[Own(g)] = r.board]
               /\ UNCHANGED <<net, placed>>
          ELSE IF r.ok = "true"
          THEN LET ph == PhaseAfterPlacing(g.phase.k)
               IN /\ game' = [game EXCEPT ![p].board[Own(g)] = r.board,
                                          ![p].phase = ph]
                  /\ net' = IF ph = Playing THEN Send(net, Other(p), MsgFinished)
                            ELSE net
                  /\ placed' = [placed EXCEPT
                                  ![p] = @ \cup SpanCells(pos, ShipLen(ship), a[3])]
                  /\ ret' = [call EXCEPT !.res = "Ok"]
                  /\ UNCHANGED pc
          ELSE /\ ret' = [call EXCEPT !.res = "InvalidPlacement"]
               /\ game' = [game EXCEPT ![p].board[Own(g)] = r.board]
               /\ UNCHANGED <<net, pc, placed>>
       /\ UNCHANGED <<loc, build, version, tx, ui, outcome, wire, shots, offscan>>

\* the guard of fire without its my_turn() test
FireAllowedAnyTurn(g) == g.phase = Playing

\* fire: `self.phase() != Phase::Playing || !self.my_turn()` is false
FireAllowed(g) == g.phase = Playing /\ MyTurn(g)

\* receive: `self.phase() != Phase::Playing || self.my_turn()` is false
ReceiveAllowed(g) == g.phase = Playing /\ ~MyTurn(g)

\* GameFlow::fire up to its first read: the guard, then the Fire frame
Fire(p, pos) ==
    LET g == game[p]
        call == [NoRet EXCEPT !.p = p, !.op = "fire", !.pos = pos]
    IN /\ pc[p] = "idle"
       /\ IF ~FireAllowed(g)
          THEN /\ ret' = [call EXCEPT !.res = "OutOfOrder", !.pos = NoRet.pos]
               /\ UNCHANGED <<net, pc, loc>>
          ELSE /\ net' = Send(net, Other(p), MsgFire(pos))
               /\ pc' = [pc EXCEPT ![p] = "fire_didhit"]
               /\ loc' = [loc EXCEPT ![p] = [NoLoc EXCEPT !.aim = pos]]
               /\ UNCHANGED ret
       /\ UNCHANGED <<game, build, version, tx, ui, outcome, wire, placed, shots, offscan>>

\* read_from / read_from_async: the next frame of p's stream
Readable(p) == net[p] /= <<>>
Frame(p) == Head(net[p])
Consume(p) == [net EXCEPT ![p] = Tail(@)]

\* a reader that drops a frame of the wrong variant and waits for the next
BadMessageSkip(p, op) == UNCHANGED <<ret, pc, loc>>

\* `m => return Err(GameFlowError::BadMessage(m))`
BadMessage(p, op) ==
    /\ ret' = [NoRet EXCEPT !.p = p, !.op = op, !.res = "BadMessage",
                            !.pos = loc[p].aim, !.msg = Frame(p)]
    /\ pc' = [pc EXCEPT ![p] = "idle"]
    /\ loc' = [loc EXCEPT ![p] = NoLoc]

\* fire: `let hit = match read_from_async(..) { Msg::DidHit(b) => b, .. }`
FireReadDidHit(p) ==
    /\ pc[p] = "fire_didhit"
    /\ Readable(p)
    /\ net' = Consume(p)
    /\ IF Frame(p).t = "DidHit"
       THEN /\ loc' = [loc EXCEPT ![p].hit = Frame(p).b]
            /\ pc' = [pc EXCEPT ![p] = "fire_sunk"]
            /\ UNCHANGED ret
       ELSE BadMessage(p, "fire")
    /\ UNCHANGED <<game, build, version, tx, ui, outcome, wire, placed, shots, offscan>>

\* fire: `let sunk = match read_from_async(..) { Msg::Sunk(s) => .. }`
FireReadSunk(p) ==
    /\ pc[p] = "fire_sunk"
    /\ Readable(p)
    /\ net' = Consume(p)
    /\ IF Frame(p).t = "Sunk"
       THEN /\ loc' = [loc EXCEPT ![p].sunk = Frame(p).s]
            /\ pc' = [pc EXCEPT ![p] = "fire_won"]
            /\ UNCHANGED ret
       ELSE BadMessage(p, "fire")
    /\ UNCHANGED <<game, build, version, tx, ui, outcome, wire, placed, shots, offscan>>

\* fire: `let won = match read_from_async(..) {..}` and Ok(TurnResults {..})
FireReadWon(p) ==
    /\ pc[p] = "fire_won"
    /\ Readable(p)
    /\ net' = Consume(p)
    /\ IF Frame(p).t \in {"Finished", "NotFinished"}
       THEN /\ ret' = [NoRet EXCEPT
                         !.p = p, !.op = "fire", !.res = "Ok", !.pos = loc[p].aim,
                         !.hit = IF loc[p].hit THEN "Hit" ELSE "None",
                         !.sunk = loc[p].sunk,
                         !.won = (Frame(p).t = "Finished")]
            /\ pc' = [pc EXCEPT ![p] = "idle"]
            /\ loc' = [loc EXCEPT ![p] = NoLoc]
       ELSE BadMessage(p, "fire")
    /\ UNCHANGED <<game, build, version, tx, ui, outcome, wire, placed, shots, offscan>>

\* GameFlow::receive up to its read: the guard
Receive(p) ==
    LET g == game[p]
    IN /\ pc[p] = "idle"
       /\ IF ~ReceiveAllowed(g)
          THEN /\ ret' = [NoRet EXCEPT !.p = p, !.op = "receive",
                                       !.res = "OutOfOrder"]
               /\ UNCHANGED pc
          ELSE /\ pc' = [pc EXCEPT ![p] = "recv_fire"]
               /\ UNCHANGED ret
       /\ UNCHANGED <<game, net, loc, build, version, tx, ui, outcome, wire, placed, shots, offscan>>

\* a hit test that looks only for an entry at aim: a cell struck before
\* counts as a hit again
HitKindAnyEntry(b, aim) ==
    IF ~Occupied(b, aim) THEN "None"
    ELSE IF b[aim] \in {"Hit", "None", "Miss"} THEN "Hit" ELSE b[aim]

\* board.insert(aim, Ship::Hit).filter(|v| !matches!(v, Hit | None | Miss)):
\* the kind that was at aim, "None" when the entry was absent or no ship kind
HitKind(b, aim) ==
    IF Occupied(b, aim) /\ b[aim] \notin {"Hit", "None", "Miss"}
    THEN b[aim] ELSE "None"

\* a receiver that marks its own board by the outcome: Hit where a ship
\* kind stood, Miss elsewhere
InsertHitOrMiss(b, aim) ==
    Insert(b, aim, IF HitKind(b, aim) /= "None" THEN "Hit" ELSE "Miss")

\* board.insert(aim, Ship::Hit): the fleet board after a received shot
InsertHit(b, aim) == Insert(b, aim, "Hit")

\* the sunk test without the look at the board: every hit announces its kind
SunkKindEveryHit(b, hit) == hit

\* hit.filter(|hit| !board.contains(*hit)), on the board after the insert
SunkKind(b, hit) == IF hit /= "None" /\ ~Contains(b, hit) THEN hit ELSE "None"

\* the loss test with any() in place of all()
AnyEmpty(b) == \E c \in DOMAIN b : IsEmpty(b[c])

\* a test for defeat that takes a Hit entry for a ship that is still afloat
AllEmptyButHits(b) == \A c \in DOMAIN b : b[c] \in {"None", "Miss"}

\* board.iter().all(|(_, ship)| ship.is_empty())
AllEmpty(b) == \A c \in DOMAIN b : IsEmpty(b[c])

\* the three answers with Sunk written ahead of DidHit
ReplySunkFirst(hit, sunk, won) ==
    <<MsgSunk(sunk), MsgDidHit(hit /= "None"),
      IF won THEN MsgFinished ELSE MsgNotFinished>>

\* the three writes of receive, in order: DidHit(hit.is_some()),
\* Sunk(sunk.unwrap_or(Ship::None)), Finished if won else NotFinished
Reply(hit, sunk, won) ==
    <<MsgDidHit(hit /= "None"), MsgSunk(sunk),
      IF won THEN MsgFinished ELSE MsgNotFinished>>

\* receive from the Fire frame on: insert Hit, send DidHit, Sunk and
\* Finished | NotFinished, return Ok(TurnResults { hit, sunk, won })
ReceiveReadFire(p) ==
    LET g == game[p]
        m == Frame(p)
        aim == <<m.x, m.y>>
        hit == HitKind(g.board[Own(g)], aim)
        after == InsertHit(g.board[Own(g)], aim)
        sunk == SunkKind(after, hit)
        won == AllEmpty(after)
        o == Other(p)
    IN /\ pc[p] = "recv_fire"
       /\ Readable(p)
       /\ IF m.t = "Fire"
          THEN /\ game' = [game EXCEPT ![p].board[Own(g)] = after]
               /\ net' = [net EXCEPT
                            ![p] = Tail(@),
                            ![o] = @ \o Reply(hit, sunk, won)]
               /\ shots' = [shots EXCEPT ![p] = @ \cup {aim}]
               /\ ret' = [NoRet EXCEPT !.p = p, !.op = "receive", !.res = "Ok",
                                       !.pos = aim, !.hit = hit, !.sunk = sunk,
                                       !.won = won]
               /\ pc' = [pc EXCEPT ![p] = "idle"]
               /\ UNCHANGED loc
          ELSE /\ net' = Consume(p)
               /\ BadMessage(p, "receive")
               /\ UNCHANGED <<game, shots>>
       /\ UNCHANGED <<build, version, tx, ui, outcome, wire, placed, offscan>>

(***************************************************************************)
(* Engine sessions                                                         *)
(***************************************************************************)
Builds == {"debug", "release"}

\* Msg::Hello(0): the version constant of this source
HelloVersion == 0

\* the version constants of a pair of builds: both peers run this source, or
\* the client runs a build whose constant is the next one
Versions ==
    { [p \in Peers |-> IF p = "cli" THEN v ELSE HelloVersion] :
        v \in {HelloVersion, HelloVersion + 1} }

\* the server passes serve = true to GameFlow::new, the client serve = false
Serve(p) == p = "srv"

\* both engines just constructed, the stream open and empty
InitNew ==
    /\ game = [p \in Peers |-> NewGame(Serve(p))]
    /\ net = [p \in Peers |-> <<>>]
    /\ pc = [p \in Peers |-> "idle"]
    /\ loc = [p \in Peers |-> NoLoc]
    /\ ret = NoRet
    /\ build \in Builds
    /\ version \in Versions
    /\ wire = [p \in Peers |-> <<>>]
    /\ placed = [p \in Peers |-> {}]
    /\ shots = [p \in Peers |-> {}]
    /\ offscan = [p \in Peers |-> 0]
    /\ tx = [p \in Peers |-> <<>>]
    /\ ui = [p \in Peers |-> "idle"]
    /\ outcome = [p \in Peers |-> "none"]

\* a fleet: the five kinds placed in order by Ship::place
FleetArgs ==
    << <<5, 0, FALSE>>, <<6, 1, FALSE>>, <<7, 2, FALSE>>, <<2, 7, TRUE>>,
       <<8, 4, FALSE>> >>

RECURSIVE PlaceAll(_, _)
PlaceAll(b, i) ==
    IF i > Len(ShipOrder) THEN b
    ELSE PlaceAll(Place(ShipOrder[i], b, <<FleetArgs[i][1], FleetArgs[i][2]>>,
                        FleetArgs[i][3], "release").board, i + 1)

FullFleet == PlaceAll(EmptyBoard, 1)

ShipCells(b) == {c \in DOMAIN b : ~IsEmpty(b[c])}

\* the fleet cells already struck when a Playing session is picked up:
\* none, or every cell but the Destroyer's two
StruckBefore == { {}, {c \in DOMAIN FullFleet : FullFleet[c] /= "Destroyer"} }

Strike(b, cells) == [c \in DOMAIN b |-> IF c \in cells THEN "Hit" ELSE b[c]]

\* what a stream holds when its reader enters Playing: nothing, or the
\* Finished frame the peer's place_ship writes when it reaches Playing,
\* which no operation of the engine reads
Pending == { <<>>, <<MsgFinished>> }

\* both engines in the Playing phase, between exchanges: the fleets placed,
\* some of the server's cells already struck
InitPlaying ==
    \E struck \in StruckBefore, pending \in Pending :
        /\ game = [p \in Peers |->
                     [NewGame(Serve(p)) EXCEPT
                        !.phase = Playing,
                        !.board[Own(NewGame(Serve(p)))] =
                            IF p = "srv" THEN Strike(FullFleet, struck)
                                         ELSE FullFleet]]
        /\ net = [p \in Peers |-> pending]
        /\ pc = [p \in Peers |-> "idle"]
        /\ loc = [p \in Peers |-> NoLoc]
        /\ ret = NoRet
        /\ build \in Builds
        /\ version = [p \in Peers |-> HelloVersion]
        /\ wire = [p \in Peers |-> <<>>]
        /\ placed = [p \in Peers |-> DOMAIN FullFleet]
        /\ shots = [p \in Peers |-> IF p = "srv" THEN struck ELSE {}]
        /\ offscan = [p \in Peers |-> 0]
        /\ tx = [p \in Peers |-> <<>>]
        /\ ui = [p \in Peers |-> "idle"]
        /\ outcome = [p \in Peers |-> "none"]

(***************************************************************************)
(* The threaded worker GameFlowServer::game_flow (src/src/flow.rs); the    *)
(* CLI (src/src/main.rs) runs the same handshake, ship_placement and       *)
(* game_loop on its main thread.                                           *)
(***************************************************************************)
\* GameFlowServer::new with `you` left at its default on both sides
NewServerGameDefaultYou(host) ==
    [board |-> [i \in 0..1 |-> EmptyBoard], turn |-> FALSE, you |-> FALSE,
     phase |-> Connecting]

\* GameFlowServer::new: Game { you: !host, ..Default::default() }
NewServerGame(host) ==
    [board |-> [i \in 0..1 |-> EmptyBoard], turn |-> FALSE, you |-> ~host,
     phase |-> Connecting]

\* both workers spawned, nothing written yet
InitThreaded ==
    /\ game = [p \in Peers |-> NewServerGame(Serve(p))]
    /\ net = [p \in Peers |-> <<>>]
    /\ pc = [p \in Peers |-> "game_flow"]
    /\ loc = [p \in Peers |-> NoLoc]
    /\ ret = NoRet
    /\ build \in Builds
    /\ version \in Versions
    /\ wire = [p \in Peers |-> <<>>]
    /\ placed = [p \in Peers |-> {}]
    /\ shots = [p \in Peers |-> {}]
    /\ offscan = [p \in Peers |-> 0]
    /\ tx = [p \in Peers |-> <<>>]
    /\ ui = [p \in Peers |-> "idle"]
    /\ outcome = [p \in Peers |-> "none"]

\* the PlaceShip(x, y, vertical) commands the front-end sends to the worker
UiPlaceArgs == {FleetArgs[i] : i \in 1..Len(FleetArgs)}

\* the order in which the front-end works through the opponent's grid
ScanOrder ==
    << <<8, 4>>, <<9, 4>>, <<5, 0>>, <<6, 0>>, <<7, 0>>, <<8, 0>>, <<9, 0>>,
       <<6, 1>>, <<7, 1>>, <<8, 1>>, <<9, 1>>, <<7, 2>>, <<8, 2>>, <<9, 2>>,
       <<2, 7>>, <<2, 8>>, <<2, 9>> >>

\* how many Fire commands off ScanOrder a front-end sends in a session
MaxOffScan == 1

\* the first cell of ScanOrder the front-end of p has no marker for
ScanNext(p) ==
    LET fresh == {i \in 1..Len(ScanOrder) : ScanOrder[i] \notin DOMAIN Knowledge(p)}
    IN {ScanOrder[i] : i \in {j \in fresh : \A k \in fresh : j <= k}}

\* the Fire(x, y) commands the front-end sends: the next cell of ScanOrder,
\* or, off the scan, a water cell or the first cell once more; in a session
\* where a front-end takes the events of its mailbox both keep to the scan
UiTargets(p) ==
    ScanNext(p)
        \cup (IF offscan[p] < MaxOffScan /\ \A q \in Peers : ui[q] = "idle"
              THEN {<<0, 0>>, ScanOrder[1]} ELSE {})

Panic(p) == pc' = [pc EXCEPT ![p] = "panicked"]

\* a handshake that opens the stream and waits for the peer's Hello
\* without writing its own
HandshakeNoHello(p) ==
    /\ pc[p] = "game_flow"
    /\ game' = [game EXCEPT ![p].phase = Connecting]
    /\ tx' = Notify(tx, p, <<Connecting>>)
    /\ pc' = [pc EXCEPT ![p] = "hello"]
    /\ UNCHANGED <<net, loc, ret, build, version, ui, outcome, wire, placed, shots, offscan>>

\* game_flow up to the first read: phase = Connecting, NewPhase, then
\* handshake opens the stream and writes Hello
Handshake(p) ==
    /\ pc[p] = "game_flow"
    /\ game' = [game EXCEPT ![p].phase = Connecting]
    /\ tx' = Notify(tx, p, <<Connecting>>)
    /\ net' = Send(net, Other(p), MsgHello(version[p]))
    /\ pc' = [pc EXCEPT ![p] = "hello"]
    /\ UNCHANGED <<loc, ret, build, version, ui, outcome, wire, placed, shots, offscan>>

\* the index of kind k in Ship::into_iter
RECURSIVE KindIndex(_, _)
KindIndex(k, i) == IF ShipOrder[i] = k THEN i ELSE KindIndex(k, i + 1)

\* handshake: read the response, assert_eq!(msg, resp) with msg the Hello
\* this side wrote; then ship_placement enters its loop and sends NewPhase
\* for the first kind
HandshakeRead(p) ==
    /\ pc[p] = "hello"
    /\ Readable(p)
    /\ net' = Consume(p)
    /\ IF Frame(p) = MsgHello(version[p])
       THEN /\ tx' = Notify(tx, p, <<Placing(ShipOrder[1])>>)
            /\ pc' = [pc EXCEPT ![p] = "new_phase"]
       ELSE Panic(p) /\ UNCHANGED tx
    /\ UNCHANGED <<game, loc, ret, build, version, ui, outcome, wire, placed, shots, offscan>>

\* the kind of the iteration of ship_placement that follows phase ph
KindAfter(ph) ==
    IF ph.t = "Placing" THEN ShipOrder[KindIndex(ph.k, 1) + 1] ELSE ShipOrder[1]

\* ship_placement, after the send of NewPhase:
\* state.write().unwrap().phase = Phase::Placing(ship_kind)
StorePlacing(p) ==
    /\ pc[p] = "new_phase"
    /\ game' = [game EXCEPT ![p].phase = Placing(KindAfter(@))]
    /\ pc' = [pc EXCEPT ![p] = "placing"]
    /\ UNCHANGED <<net, loc, ret, build, version, tx, ui, outcome, wire, placed, shots,
                   offscan>>

\* ship_placement: one PlaceShip command taken from rx for the kind of the
\* current iteration; on success the loop moves to the next kind and sends
\* NewPhase for it, and after the last kind Finished is written
ShipPlacement(p, a) ==
    LET g == game[p]
        kind == g.phase.k
        pos == <<a[1], a[2]>>
        r == Place(kind, g.board[Own(g)], pos, a[3], build)
        i == KindIndex(kind, 1)
    IN /\ pc[p] = "placing"
       /\ IF r.ok = "panic"
          THEN /\ Panic(p)
               /\ game' = [game EXCEPT ![p].board[Own(g)] = r.board]
               /\ UNCHANGED <<net, placed, tx>>
          ELSE IF r.ok = "true"
          THEN /\ placed' = [placed EXCEPT
                               ![p] = @ \cup SpanCells(pos, ShipLen(kind), a[3])]
               /\ game' = [game EXCEPT ![p].board[Own(g)] = r.board]
               /\ IF i < Len(ShipOrder)
                  THEN /\ tx' = Notify(tx, p, <<Placing(ShipOrder[i + 1])>>)
                       /\ pc' = [pc EXCEPT ![p] = "new_phase"]
                       /\ UNCHANGED net
                  ELSE /\ net' = Send(net, Other(p), MsgFinished)
                       /\ pc' = [pc EXCEPT ![p] = "await_finished"]
                       /\ UNCHANGED tx
          ELSE /\ game' = [game EXCEPT ![p].board[Own(g)] = r.board]
               /\ UNCHANGED <<net, pc, placed, tx>>
       /\ UNCHANGED <<loc, ret, build, version, ui, outcome, wire, shots, offscan>>

\* game_flow without the read of the peer's Finished: Playing follows
\* ship_placement at once
AwaitFinishedSkip(p) ==
    /\ pc[p] = "await_finished"
    /\ game' = [game EXCEPT ![p].phase = Playing]
    /\ tx' = Notify(tx, p, <<Playing, Playing>>)
    /\ pc' = [pc EXCEPT ![p] = "loop"]
    /\ UNCHANGED <<net, loc, ret, build, version, ui, outcome, wire, placed, shots, offscan>>

\* game_flow: assert_eq!(Msg::Finished, read_from(..)); phase = Playing;
\* NewPhase; game_loop opens with one more NewPhase
AwaitFinished(p) ==
    /\ pc[p] = "await_finished"
    /\ Readable(p)
    /\ net' = Consume(p)
    /\ IF Frame(p).t = "Finished"
       THEN /\ game' = [game EXCEPT ![p].phase = Playing]
            /\ tx' = Notify(tx, p, <<Playing, Playing>>)
            /\ pc' = [pc EXCEPT ![p] = "loop"]
       ELSE Panic(p) /\ UNCHANGED <<game, tx>>
    /\ UNCHANGED <<loc, ret, build, version, ui, outcome, wire, placed, shots, offscan>>

\* state.write().unwrap().turn ^= true, at the bottom of game_loop
ToggleTurn(g) == [g EXCEPT !.turn = ~g.turn]

\* game_loop, own turn: take Fire(x, y) from rx and write the Fire frame
GameLoopFire(p, pos) ==
    /\ pc[p] = "loop"
    /\ MyTurn(game[p])
    /\ net' = Send(net, Other(p), MsgFire(pos))
    /\ loc' = [loc EXCEPT ![p] = [NoLoc EXCEPT !.aim = pos]]
    /\ pc' = [pc EXCEPT ![p] = "didhit"]
    /\ offscan' = [offscan EXCEPT ![p] = IF pos \in ScanNext(p) THEN @ ELSE @ + 1]
    /\ UNCHANGED <<game, ret, build, version, tx, ui, outcome, wire, placed, shots>>

\* game_loop, own turn: DidHit(b) marks the opponent-knowledge board
GameLoopReadDidHit(p) ==
    LET g == game[p]
    IN /\ pc[p] = "didhit"
       /\ Readable(p)
       /\ net' = Consume(p)
       /\ IF Frame(p).t = "DidHit"
          THEN /\ game' = [game EXCEPT
                             ![p].board[Enemy(g)] =
                                 Insert(@, loc[p].aim,
                                        IF Frame(p).b THEN "Hit" ELSE "Miss")]
               /\ loc' = [loc EXCEPT ![p].hit = Frame(p).b]
               /\ pc' = [pc EXCEPT ![p] = "sunk"]
          ELSE Panic(p) /\ UNCHANGED <<game, loc>>
       /\ UNCHANGED <<ret, build, version, tx, ui, outcome, wire, placed, shots, offscan>>

\* game_loop, own turn: Sunk(s)
GameLoopReadSunk(p) ==
    /\ pc[p] = "sunk"
    /\ Readable(p)
    /\ net' = Consume(p)
    /\ IF Frame(p).t = "Sunk"
       THEN /\ loc' = [loc EXCEPT ![p].sunk = Frame(p).s]
            /\ pc' = [pc EXCEPT ![p] = "won"]
       ELSE Panic(p) /\ UNCHANGED loc
    /\ UNCHANGED <<game, ret, build, version, tx, ui, outcome, wire, placed, shots, offscan>>

\* game_loop, own turn: Finished sends Won(true) and breaks out of the loop
\* (game_flow then sets phase = Done, sends NewPhase and shuts the stream
\* down), NotFinished toggles the turn
GameLoopReadFinished(p) ==
    /\ pc[p] = "won"
    /\ Readable(p)
    /\ net' = Consume(p)
    /\ IF Frame(p).t = "Finished"
       THEN /\ outcome' = [outcome EXCEPT ![p] = "won"]
            /\ game' = [game EXCEPT ![p].phase = DoneT]
            /\ tx' = Notify(tx, p, <<DoneT>>)
            /\ pc' = [pc EXCEPT ![p] = "closed"]
       ELSE IF Frame(p).t = "NotFinished"
       THEN /\ game' = [game EXCEPT ![p] = ToggleTurn(@)]
            /\ pc' = [pc EXCEPT ![p] = "loop"]
            /\ UNCHANGED <<tx, outcome>>
       ELSE Panic(p) /\ UNCHANGED <<game, tx, outcome>>
    /\ loc' = [loc EXCEPT ![p] = NoLoc]
    /\ UNCHANGED <<ret, build, version, ui, wire, placed, shots, offscan>>

\* game_loop, enemy's turn: read Fire, insert Hit, answer DidHit, Sunk and
\* Finished (Won(false), break, phase = Done, NewPhase, shutdown) or
\* NotFinished (toggle the turn)
GameLoopReceive(p) ==
    LET g == game[p]
        m == Frame(p)
        aim == <<m.x, m.y>>
        hit == HitKind(g.board[Own(g)], aim)
        after == InsertHit(g.board[Own(g)], aim)
        sunk == SunkKind(after, hit)
        lost == AllEmpty(after)
        o == Other(p)
    IN /\ pc[p] = "loop"
       /\ ~MyTurn(g)
       /\ Readable(p)
       /\ IF m.t = "Fire"
          THEN /\ net' = [net EXCEPT
                            ![p] = Tail(@),
                            ![o] = @ \o Reply(hit, sunk, lost)]
               /\ shots' = [shots EXCEPT ![p] = @ \cup {aim}]
               /\ IF lost
                  THEN /\ outcome' = [outcome EXCEPT ![p] = "lost"]
                       /\ game' = [game EXCEPT ![p].board[Own(g)] = after,
                                               ![p].phase = DoneT]
                       /\ tx' = Notify(tx, p, <<DoneT>>)
                       /\ pc' = [pc EXCEPT ![p] = "closed"]
                  ELSE /\ game' = [game EXCEPT
                                     ![p] = ToggleTurn(
                                              [g EXCEPT !.board[Own(g)] = after])]
                       /\ UNCHANGED <<pc, tx, outcome>>
          ELSE /\ net' = Consume(p)
               /\ Panic(p)
               /\ UNCHANGED <<game, shots, tx, outcome>>
       /\ UNCHANGED <<loc, ret, build, version, ui, wire, placed, offscan>>

\* the front-end: rx.recv() returns the oldest NewPhase event of the
\* mailbox, and the front-end reads state.read().unwrap().phase
UiRecv(p) ==
    /\ ui[p] = "recv"
    /\ tx[p] /= <<>>
    /\ tx' = [tx EXCEPT ![p] = Tail(@)]
    /\ UNCHANGED <<game, net, pc, loc, ret, build, version, ui, outcome, wire, placed,
                   shots, offscan>>

\* both workers spawned, the front-end of one of them taking the events of
\* its mailbox
InitFrontEnd ==
    /\ game = [p \in Peers |-> NewServerGame(Serve(p))]
    /\ net = [p \in Peers |-> <<>>]
    /\ pc = [p \in Peers |-> "game_flow"]
    /\ loc = [p \in Peers |-> NoLoc]
    /\ ret = NoRet
    /\ build = "release"
    /\ version = [p \in Peers |-> HelloVersion]
    /\ wire = [p \in Peers |-> <<>>]
    /\ placed = [p \in Peers |-> {}]
    /\ shots = [p \in Peers |-> {}]
    /\ offscan = [p \in Peers |-> 0]
    /\ tx = [p \in Peers |-> <<>>]
    /\ ui \in {[p \in Peers |-> IF p = q THEN "recv" ELSE "idle"] : q \in Peers}
    /\ outcome = [p \in Peers |-> "none"]

(***************************************************************************)
(* Sessions: a pair of engines, or a pair of workers                       *)
(***************************************************************************)
\* a codec session: the server end writes frames, the client end reads them
InitCodec ==
    /\ game = [p \in Peers |-> NewServerGame(Serve(p))]
    /\ net = [p \in Peers |-> <<>>]
    /\ pc = [p \in Peers |-> IF Serve(p) THEN "codec_write" ELSE "codec_read"]
    /\ loc = [p \in Peers |-> NoLoc]
    /\ ret = NoRet
    /\ build = "release"
    /\ version = [p \in Peers |-> HelloVersion]
    /\ wire = [p \in Peers |-> <<>>]
    /\ placed = [p \in Peers |-> {}]
    /\ shots = [p \in Peers |-> {}]
    /\ offscan = [p \in Peers |-> 0]
    /\ tx = [p \in Peers |-> <<>>]
    /\ ui = [p \in Peers |-> "idle"]
    /\ outcome = [p \in Peers |-> "none"]

Init == InitNew \/ InitPlaying \/ InitThreaded \/ InitCodec \/ InitFrontEnd

Next ==
    \E p \in Peers :
        \/ \E ship \in Kinds, a \in PlaceArgs : PlaceShip(p, ship, a)
        \/ \E pos \in Targets : Fire(p, pos)
        \/ FireReadDidHit(p)
        \/ FireReadSunk(p)
        \/ FireReadWon(p)
        \/ Receive(p)
        \/ ReceiveReadFire(p)
        \/ Handshake(p)
        \/ HandshakeRead(p)
        \/ StorePlacing(p)
        \/ \E a \in UiPlaceArgs : ShipPlacement(p, a)
        \/ AwaitFinished(p)
        \/ \E pos \in UiTargets(p) : GameLoopFire(p, pos)
        \/ GameLoopReadDidHit(p)
        \/ GameLoopReadSunk(p)
        \/ GameLoopReadFinished(p)
        \/ GameLoopReceive(p)
        \/ UiRecv(p)
        \/ \E m \in Catalog : WriteTo(p, m)
        \/ ReadFrom(p)

Spec == Init /\ [][Next]_vars

(***************************************************************************)
(* A pair of workers whose threads keep running                            *)
(***************************************************************************)
\* both workers spawned from a release build, nothing written yet; the
\* build matters to Ship::place alone, and the PlaceShip commands of these
\* front-ends stay inside the grid
InitWorkers == InitThreaded /\ build = "release"

\* one step of the thread of worker p (game_flow, or main of the CLI); the
\* two steps that take a command from rx are tried only where the thread
\* stands at that rx.recv()
WorkerStep(p) ==
    \/ Handshake(p)
    \/ HandshakeRead(p)
    \/ StorePlacing(p)
    \/ pc[p] = "placing" /\ \E a \in UiPlaceArgs : ShipPlacement(p, a)
    \/ AwaitFinished(p)
    \/ /\ pc[p] = "loop" /\ MyTurn(game[p])
       /\ \E pos \in UiTargets(p) : GameLoopFire(p, pos)
    \/ GameLoopReadDidHit(p)
    \/ GameLoopReadSunk(p)
    \/ GameLoopReadFinished(p)
    \/ GameLoopReceive(p)

NextWorkers == \E p \in Peers : WorkerStep(p)

\* the thread of a worker that can take a step takes one: it is a thread of
\* its own and blocks only in read_from and in rx.recv(), where its
\* front-end keeps sending commands; of the Fire commands of a front-end at
\* most MaxOffScan are off its scan of the opponent's grid
WorkersRun == \A p \in Peers : WF_vars(WorkerStep(p))

FairSpec == InitWorkers /\ [][NextWorkers]_vars /\ WorkersRun

(***************************************************************************)
(* Properties                                                              *)
(***************************************************************************)
\* peer p is in Playing and not inside an exchange: a worker at the top of
\* game_loop, an engine in Playing with no call in progress
BetweenExchanges(p) ==
    \/ pc[p] = "loop"
    \/ pc[p] = "idle" /\ game[p].phase = Playing

\* C1: in a paired session, whenever both peers are in Playing and neither
\* is inside an exchange, my_turn() (turn == you) is true for exactly one
\* of the two peers.
C1_ExactlyOneTurn ==
    (\A p \in Peers : BetweenExchanges(p))
        => (MyTurn(game["srv"]) /= MyTurn(game["cli"]))

\* both workers are back at the top of game_loop after at least one
\* exchange that did not end the game
C1_Witness ==
    /\ \A p \in Peers : pc[p] = "loop"
    /\ shots["cli"] /= {}
    /\ game["srv"].turn /\ game["cli"].turn

PhaseAfter(k) ==
    CASE k = "Carrier" -> Placing("Battleship")
      [] k = "Battleship" -> Placing("Cruiser")
      [] k = "Cruiser" -> Placing("Submarine")
      [] k = "Submarine" -> Placing("Destroyer")
      [] k = "Destroyer" -> Playing

\* C3: after a successful place_ship of kind k the engine's phase is
\* Placing(next(k)), and Playing when k is Destroyer.
C3_PlacementAdvancesPhase ==
    (ret.op = "place_ship" /\ ret.res = "Ok")
        => game[ret.p].phase = PhaseAfter(ret.kind)

\* every (column, row, vertical) a front-end passes to a placement
AllPlaceArgs == PlaceArgs \cup UiPlaceArgs

\* C4: a Ship::place that returns false leaves the board as it was, for
\* every kind, origin and orientation on every board of an engine or a
\* worker in a Placing phase; a
\* place_ship that returns InvalidPlacement, and a failed placement of the
\* worker's loop, leave boards and phase as they were.
C4_FailedPlacementChangesNothing ==
    /\ [](\A p \in Peers :
            (pc[p] \in {"idle", "placing"} /\ game[p].phase.t = "Placing") =>
                \A ship \in Kinds, a \in AllPlaceArgs :
                    LET r == Place(ship, Fleet(p), <<a[1], a[2]>>, a[3], build)
                    IN r.ok = "false" => r.board = Fleet(p))
    /\ [][ /\ (ret' /= ret /\ ret'.res = "InvalidPlacement")
                => \A a \in PlaceArgs :
                     PlaceShip(ret'.p, ret'.kind, a) => game' = game
           /\ \A p \in Peers, a \in UiPlaceArgs :
                (/\ pc[p] = "placing" /\ pc'[p] = "placing"
                 /\ game'[p].phase = game[p].phase /\ ShipPlacement(p, a))
                    => game' = game ]_vars

\* a vertical place_ship was rejected on a board where only the last cell
\* of its span, not the first, is occupied
C4_Witness ==
    /\ ret.op = "place_ship" /\ ret.res = "InvalidPlacement" /\ ret.v
    /\ <<0, 4>> \in DOMAIN Fleet(ret.p)
    /\ <<0, 0>> \notin DOMAIN Fleet(ret.p)

\* the span the placement rule describes: length consecutive cells from the
\* origin along the travel axis
SpanOf(ship, a) ==
    {IF a[3] THEN <<a[1], a[2] + i>> ELSE <<a[1] + i, a[2]>> :
        i \in 0..(ShipLen(ship) - 1)}

\* the placement rule: the span ends inside 0..10 on the travel axis and
\* none of its cells has an entry
MayPlace(ship, b, a) ==
    /\ (IF a[3] THEN a[2] ELSE a[1]) + ShipLen(ship) <= Grid
    /\ \A c \in SpanOf(ship, a) : c \notin DOMAIN b

\* C5: a placement succeeds if and only if the span ends inside the grid on
\* the travel axis and all its cells are free; on success exactly the span
\* cells are added, each carrying the kind, and no other entry changes.
C5_PlaceIffFitsAndFree ==
    [][ /\ \A p \in Peers, ship \in Kinds, a \in PlaceArgs :
             (PlaceShip(p, ship, a) /\ game[p].phase = Placing(ship))
                 => /\ (ret'.res = "Ok") <=> MayPlace(ship, Fleet(p), a)
                    /\ ret'.res \in {"Ok", "InvalidPlacement"}
                    /\ ret'.res = "Ok" =>
                         /\ DOMAIN Fleet(p)' = DOMAIN Fleet(p) \cup SpanOf(ship, a)
                         /\ \A c \in SpanOf(ship, a) : Fleet(p)'[c] = ship
                         /\ \A c \in DOMAIN Fleet(p) : Fleet(p)'[c] = Fleet(p)[c] ]_vars

\* C6: place_ship with a kind other than the one of the current Placing
\* phase, or outside Placing, returns OutOfOrder and changes neither the
\* boards nor the phase, whatever the coordinate and orientation.
C6_WrongKindOutOfOrder ==
    [][(/\ ret' /= ret
        /\ ret'.op = "place_ship"
        /\ game[ret'.p].phase /= Placing(ret'.kind))
            => /\ ret'.res = "OutOfOrder"
               /\ game' = game /\ net' = net]_vars

\* a Destroyer was refused on an empty board while the phase asks for the
\* Carrier: the coordinate would have been valid
C6_Witness ==
    /\ ret.op = "place_ship" /\ ret.res = "OutOfOrder" /\ ret.kind = "Destroyer"
    /\ game[ret.p].phase = Placing("Carrier")
    /\ Fleet(ret.p) = EmptyBoard

CountOf(b, m) == Cardinality({c \in DOMAIN b : b[c] = m})

\* peer p has finished placement: the engine is in Playing, or the worker
\* has left the loop of ship_placement
PlacementDone(p) ==
    \/ pc[p] = "idle" /\ game[p].phase = Playing
    \/ pc[p] \in {"await_finished", "loop", "didhit", "sunk", "won"}

\* C7: once a peer has finished placement and until it answers a shot, its
\* fleet board holds exactly 17 entries: 5 Carrier, 4 Battleship, 3 Cruiser,
\* 3 Submarine, 2 Destroyer.
C7_SeventeenCells ==
    \A p \in Peers :
        (PlacementDone(p) /\ shots[p] = {})
            => /\ Cardinality(DOMAIN Fleet(p)) = 17
               /\ CountOf(Fleet(p), "Carrier") = 5
               /\ CountOf(Fleet(p), "Battleship") = 4
               /\ CountOf(Fleet(p), "Cruiser") = 3
               /\ CountOf(Fleet(p), "Submarine") = 3
               /\ CountOf(Fleet(p), "Destroyer") = 2

\* a worker has left ship_placement with the Cruiser placed vertically
C7_Witness ==
    /\ pc["srv"] = "await_finished"
    /\ shots["srv"] = {}
    /\ <<2, 7>> \in DOMAIN Fleet("srv") /\ Fleet("srv")[<<2, 7>>] = "Cruiser"

\* C8: fire outside Playing or out of turn, and receive outside Playing or
\* in turn, return OutOfOrder, write and consume no frame, and leave the
\* boards, the turn and the phase as they were.
C8_OutOfTurnOutOfOrder ==
    [][\A p \in Peers :
         /\ \A pos \in Targets :
              (/\ game[p].phase /= Playing \/ ~MyTurn(game[p])
               /\ Fire(p, pos))
                  => /\ ret'.op = "fire" /\ ret'.res = "OutOfOrder"
                     /\ game' = game /\ net' = net /\ pc' = pc
         /\ (/\ game[p].phase /= Playing \/ MyTurn(game[p])
             /\ Receive(p))
                  => /\ ret'.op = "receive" /\ ret'.res = "OutOfOrder"
                     /\ game' = game /\ net' = net /\ pc' = pc]_vars

\* the server's engine, in Playing but not on turn, refused a fire while a
\* Fire frame of the client was waiting in its stream
C8_Witness ==
    /\ ret.op = "fire" /\ ret.res = "OutOfOrder" /\ ret.p = "srv"
    /\ game["srv"].phase = Playing
    /\ net["srv"] /= <<>>

\* C9: receive reports won = true and sends Finished if and only if, with
\* the target overwritten by Hit, no fleet-board entry carries a ship kind,
\* that is, every cell a ship was placed on has been struck; otherwise it
\* reports won = false and sends NotFinished.
C9_WonIffFleetDestroyed ==
    [][\A p \in Peers :
         (ReceiveReadFire(p) /\ Frame(p).t = "Fire")
             => LET out == net'[Other(p)]
                    won == ret'.won
                    aim == <<Frame(p).x, Frame(p).y>>
                IN /\ ret'.op = "receive" /\ ret'.res = "Ok"
                   /\ Fleet(p)'[aim] = "Hit"
                   /\ won <=> (\A c \in DOMAIN Fleet(p)' : Fleet(p)'[c] \notin Kinds)
                   /\ won <=> (placed[p] \subseteq shots'[p])
                   /\ out[Len(out)].t = (IF won THEN "Finished" ELSE "NotFinished")]_vars

\* a receive struck the last intact cell and reported the loss
C9_Witness ==
    /\ ret.op = "receive" /\ ret.res = "Ok" /\ ret.won
    /\ ret.hit = "Destroyer" /\ ret.sunk = "Destroyer"

Lost(p) == placed[p] /= {} /\ placed[p] \subseteq shots[p]

\* peer p stands inside the firing half of an exchange
Firing(p) == pc[p] \in {"fire_didhit", "fire_sunk", "fire_won", "didhit", "sunk", "won"}

\* the exchange that transferred Finished is behind peer p: p wrote it, or
\* the peer wrote it and p is past reading it
Over(p) == Lost(p) \/ (Lost(Other(p)) /\ ~Firing(p))

C12_MarkersNeverOverwritten ==
    [][\A p \in Peers, i \in 0..1 :
         LET b == game[p].board[i]
             after == game'[p].board[i]
         IN \A c \in DOMAIN b :
              /\ c \in DOMAIN after
              /\ b[c] = "Hit" => after[c] = "Hit"
              /\ i = Enemy(game[p]) => after[c] = b[c]]_vars

Shown(b) == {b[c] : c \in {d \in DOMAIN b : d[1] < Grid /\ d[2] < Grid}}

\* C14: the opponent-knowledge board of every peer holds only Hit and Miss,
\* only at coordinates the peer's Fire frames carried, and the opponent grid
\* printed from it shows no ship kind.
C14_KnowledgeOnlyHitMiss ==
    \A p \in Peers :
        /\ \A c \in DOMAIN Knowledge(p) :
              /\ Knowledge(p)[c] \in {"Hit", "Miss"}
              /\ c \in shots[Other(p)]
        /\ Shown(Knowledge(p)) \cap Kinds = {}

\* a player has a Hit and a Miss on its knowledge board while the opponent
\* still has ship cells that were not fired at
C14_Witness ==
    \E p \in Peers :
        /\ <<8, 4>> \in DOMAIN Knowledge(p) /\ Knowledge(p)[<<8, 4>>] = "Hit"
        /\ <<0, 0>> \in DOMAIN Knowledge(p) /\ Knowledge(p)[<<0, 0>>] = "Miss"
        /\ Shown(Fleet(Other(p))) \cap Kinds /= {}

\* C15: when the version constants of the two peers differ, no peer's game
\* state is ever in Placing or a later phase, and each side ends in an error
\* once it has read the peer's Hello.
C15_MismatchNoGame ==
    (version["srv"] /= version["cli"])
        => \A p \in Peers :
              /\ game[p].phase = Connecting
              /\ pc[p] \in {"game_flow", "hello", "panicked"}

\* C16: a peer whose phase is Placing writes no frame: no step taken while
\* a peer is in Placing, the placement of the last kind included, adds a
\* frame to the stream the other peer reads.
C16_NoFrameWhilePlacing ==
    [][\A p \in Peers :
         game[p].phase.t = "Placing"
             => Len(net'[Other(p)]) <= Len(net[Other(p)])]_vars

\* the variants a read of an exchange accepts, by the step of the call
ExpectedAt(step) ==
    CASE step = "fire_didhit" -> {"DidHit"}
      [] step = "fire_sunk" -> {"Sunk"}
      [] step = "fire_won" -> {"Finished", "NotFinished"}
      [] step = "recv_fire" -> {"Fire"}
      [] OTHER -> {}

\* C17: a read of fire or receive that finds a frame of another variant than
\* the step expects returns BadMessage carrying that frame, ends the call
\* without writing a frame, and leaves boards, turn and phase as they were.
C17_BadMessageNoEffect ==
    [][\A p \in Peers :
         (/\ pc[p] \in {"fire_didhit", "fire_sunk", "fire_won", "recv_fire"}
          /\ Readable(p)
          /\ Frame(p).t \notin ExpectedAt(pc[p])
          /\ \/ FireReadDidHit(p) \/ FireReadSunk(p)
             \/ FireReadWon(p) \/ ReceiveReadFire(p))
             => /\ ret'.res = "BadMessage" /\ ret'.p = p
                /\ ret'.op = (IF pc[p] = "recv_fire" THEN "receive" ELSE "fire")
                /\ ret'.msg = Frame(p)
                /\ pc'[p] = "idle"
                /\ net'[Other(p)] = net[Other(p)]
                /\ game' = game]_vars

\* a receive returned BadMessage(Finished) while the Fire frame of the
\* peer's call was waiting behind it in the stream
C17_Witness ==
    /\ ret.op = "receive" /\ ret.res = "BadMessage" /\ ret.msg = MsgFinished
    /\ net[ret.p] /= <<>> /\ Head(net[ret.p]).t = "Fire"
    /\ pc[Other(ret.p)] = "fire_didhit"

\* what the stream holds when the frames ms were written and none was read
RECURSIVE WireOf(_)
WireOf(ms) == IF ms = <<>> THEN <<>> ELSE WireFrame(Head(ms)) \o WireOf(Tail(ms))

\* C18: the encoding of a written message holds no 0x0A byte, and a read
\* returns the message at the head of the stream and leaves in the stream
\* exactly the frames written after it.
C18_FramingRoundTrip ==
    /\ [](\A p \in Peers :
            pc[p] = "codec_read" =>
                \A i \in 1..Len(net[p]) :
                    \A j \in 1..Len(Encode(net[p][i])) :
                        Encode(net[p][i])[j] /= Newline)
    /\ [][\A p \in Peers :
            ReadFrom(p) => /\ ret'.res = "Ok"
                           /\ ret'.msg = Head(net[p])
                           /\ wire'[p] = WireOf(Tail(net[p]))]_vars

Wrote(p) == SubSeq(net'[Other(p)], Len(net[Other(p)]) + 1, Len(net'[Other(p)]))

\* where a fire stands while it has a frame to read
ReadSteps == {"fire_didhit", "fire_sunk", "fire_won", "didhit", "sunk", "won"}

\* the three answers of an exchange, in order, whatever their payloads
IsReply(fs) ==
    /\ Len(fs) = 3
    /\ fs[1].t = "DidHit" /\ fs[2].t = "Sunk"
    /\ fs[3].t \in {"Finished", "NotFinished"}

\* C20: the step of fire that writes, writes exactly one Fire frame and
\* reads none; each of its three read steps consumes exactly one frame and
\* writes none, in the order DidHit, Sunk, Finished | NotFinished, and fire
\* completes only from the third; receive consumes exactly one Fire frame
\* and writes exactly DidHit, Sunk, Finished | NotFinished in this order.
C20_OneFramePerStep ==
    [][\A p \in Peers :
         /\ (pc[p] \in {"idle", "loop"} /\ pc'[p] \in {"fire_didhit", "didhit"})
                 => /\ Wrote(p) = <<MsgFire(loc'[p].aim)>>
                    /\ net'[p] = net[p]
         /\ (pc[p] \in ReadSteps /\ pc'[p] /= pc[p])
                 => /\ net'[p] = Tail(net[p])
                    /\ Wrote(p) = <<>>
                    /\ pc'[p] \in {"fire_sunk", "sunk"} => Frame(p).t = "DidHit"
                    /\ pc'[p] \in {"fire_won", "won"}
                          => (pc[p] \in {"fire_sunk", "sunk"} /\ Frame(p).t = "Sunk")
                    /\ (pc'[p] \in {"loop", "closed"}
                        \/ (pc'[p] = "idle" /\ ret'.res = "Ok"))
                          => /\ pc[p] \in {"fire_won", "won"}
                             /\ Frame(p).t \in {"Finished", "NotFinished"}
         /\ (/\ pc[p] \in {"recv_fire", "loop"}
             /\ Len(net'[p]) < Len(net[p])
             /\ Frame(p).t = "Fire")
                 => /\ net'[p] = Tail(net[p])
                    /\ IsReply(Wrote(p))]_vars

\* both answers-in-order cases at once: a receive has just answered and the
\* firing engine, still at its first read, has exactly the three answers
\* waiting
C20_Witness ==
    /\ ret.op = "receive" /\ ret.res = "Ok"
    /\ pc[Other(ret.p)] = "fire_didhit"
    /\ net[Other(ret.p)] = <<MsgDidHit(TRUE), MsgSunk("None"), MsgNotFinished>>

\* C21: the second answer of a receive is Sunk(k) exactly when the target
\* held the ship kind k before the shot and no other cell of the fleet
\* board holds k; in every other case (water, a cell struck before, a hit
\* with cells of k left) it is Sunk(None).
C21_SunkIffLastCell ==
    [][\A p \in Peers :
         (/\ pc[p] \in {"recv_fire", "loop"}
          /\ Len(net'[p]) < Len(net[p])
          /\ Frame(p).t = "Fire")
             => LET aim == <<Frame(p).x, Frame(p).y>>
                    b == Fleet(p)
                    last == /\ aim \in DOMAIN b
                            /\ b[aim] \in Kinds
                            /\ \A c \in (DOMAIN b) \ {aim} : b[c] /= b[aim]
                IN /\ Len(Wrote(p)) = 3
                   /\ Wrote(p)[2] = MsgSunk(IF last THEN b[aim] ELSE "None")]_vars

\* a receive announced the Destroyer sunk while other ships were intact
C21_Witness ==
    /\ ret.op = "receive" /\ ret.res = "Ok"
    /\ ret.sunk = "Destroyer" /\ ~ret.won
    /\ Contains(Fleet(ret.p), "Carrier")

\* C22: every entry of a fleet board lies at a coordinate where Ship::place
\* put a ship cell, and a received shot at a coordinate that holds no ship
\* kind is answered as a miss and leaves the fleet board as it was.
C22_NoWaterOnFleet ==
    /\ [](\A p \in Peers : DOMAIN Fleet(p) \subseteq placed[p])
    /\ [][\A p \in Peers :
            (/\ pc[p] \in {"recv_fire", "loop"}
             /\ Len(net'[p]) < Len(net[p])
             /\ Frame(p).t = "Fire")
                => LET aim == <<Frame(p).x, Frame(p).y>>
                       b == Fleet(p)
                   IN (aim \notin DOMAIN b \/ b[aim] \notin Kinds)
                         => /\ Wrote(p)[1] = MsgDidHit(FALSE)
                            /\ Fleet(p)' = b]_vars

\* C23: every entry of a fleet board is one of the five ship kinds or Hit;
\* Miss and None are never written there, Miss appears on opponent-knowledge
\* boards only.
C23_NoMissOnFleet ==
    \A p \in Peers :
        \A c \in DOMAIN Fleet(p) : Fleet(p)[c] \in Kinds \cup {"Hit"}

\* a shot at water was answered: the firer's knowledge board holds Miss at
\* the target, and the receiver's fleet board holds an entry there next to
\* its intact ships
C23_Witness ==
    \E p \in Peers :
        /\ <<0, 0>> \in DOMAIN Knowledge(Other(p))
        /\ Knowledge(Other(p))[<<0, 0>>] = "Miss"
        /\ <<0, 0>> \in DOMAIN Fleet(p)
        /\ Contains(Fleet(p), "Carrier")

\* both engines are in Playing with no call in progress
EnginesAtRest ==
    \A p \in Peers : pc[p] = "idle" /\ game[p].phase = Playing

WorkerSession == ~game["srv"].you /\ pc["srv"] /= "codec_write"

\* where a worker stands once it is past the barrier of game_flow
PastBarrier == {"loop", "didhit", "sunk", "won", "closed"}

\* C25: in a session of workers no Fire frame is written and no peer is in
\* Playing before both peers have placed all five ships; a peer leaves
\* ship_placement by writing Finished and enters Playing only by reading
\* the other peer's Finished.
C25_NoFireBeforeBothPlaced ==
    /\ [](WorkerSession =>
            \A p \in Peers :
               ( \/ pc[p] \in PastBarrier
                 \/ game[p].phase = Playing
                 \/ \E i \in 1..Len(net[p]) : net[p][i].t = "Fire" )
                   => \A q \in Peers : Cardinality(placed[q]) = 17)
    /\ [][\A p \in Peers :
            /\ (pc[p] = "placing" /\ pc'[p] \notin {"placing", "new_phase", "panicked"})
                  => /\ pc'[p] = "await_finished"
                     /\ Wrote(p) = <<MsgFinished>>
            /\ (WorkerSession /\ game[p].phase /= Playing /\ game'[p].phase = Playing)
                  => /\ pc[p] = "await_finished"
                     /\ Frame(p) = MsgFinished
                     /\ net'[p] = Tail(net[p])]_vars

\* the server has fired its first shot; the client, past the barrier, has
\* not read it yet
C25_Witness ==
    /\ WorkerSession
    /\ pc["srv"] = "didhit" /\ pc["cli"] = "loop"
    /\ net["cli"] = <<MsgFire(ScanOrder[1])>>
    /\ shots["cli"] = {}

\* the next transport operation of worker p is a read
AtRead(p) ==
    \/ pc[p] \in {"hello", "await_finished", "didhit", "sunk", "won"}
    \/ pc[p] = "loop" /\ ~MyTurn(game[p])

\* how many frames worker p reads in game_loop before its next write
ReadsBeforeWrite(p) ==
    CASE pc[p] = "didhit" -> 4
      [] pc[p] = "sunk" -> 3
      [] pc[p] = "won" -> 2
      [] pc[p] = "loop" -> IF MyTurn(game[p]) THEN 0 ELSE 1

\* worker p writes the next frame of the session: the frames it has to read
\* first are all in flight
NextWriter(p) == Len(net[p]) >= ReadsBeforeWrite(p)

\* C26: in a session of workers there is no state in which both peers are
\* at a read while neither stream holds a frame, and while both peers are
\* in game_loop in the Playing phase exactly one of them is the next writer.
C26_NoDeadlock ==
    WorkerSession =>
        /\ ~(\A p \in Peers : AtRead(p) /\ net[p] = <<>>)
        /\ (\A p \in Peers : pc[p] \in {"loop", "didhit", "sunk", "won"})
              => (NextWriter("srv") /= NextWriter("cli"))

\* both peers are at the first read of a firing turn: the client fired as
\* soon as it had answered, the server has the three answers and the
\* client's Fire still to read
C26_Witness ==
    /\ WorkerSession
    /\ pc["srv"] = "didhit" /\ pc["cli"] = "didhit"
    /\ Len(net["srv"]) = 4 /\ net["cli"] = <<>>

\* C27: an answer DidHit(true) is given only for a placed coordinate that
\* was not answered before and takes exactly one intact cell off the fleet
\* board; a shot at a coordinate answered before is answered DidHit(false)
\* and Sunk(None) and takes none off; Sunk(k) is written only by the step
\* after which no cell of k is left; and no step brings a ship kind back
\* onto a fleet board that has answered a shot. Hence no coordinate is
\* answered DidHit(true) twice, no kind is announced twice, and the answers
\* DidHit(true) of a peer never outnumber its placed cells.
C27_NoHitTwice ==
    [][\A p \in Peers :
         /\ (/\ pc[p] \in {"recv_fire", "loop"}
             /\ Len(net'[p]) < Len(net[p])
             /\ Frame(p).t = "Fire")
                => LET aim == <<Frame(p).x, Frame(p).y>>
                       w == Wrote(p)
                       before == Cardinality(ShipCells(Fleet(p)))
                       after == Cardinality(ShipCells(Fleet(p)'))
                   IN /\ w[1] = MsgDidHit(TRUE)
                            => /\ aim \in placed[p] /\ aim \notin shots[p]
                               /\ after = before - 1
                      /\ w[1] = MsgDidHit(FALSE) => after = before
                      /\ aim \in shots[p]
                            => /\ w[1] = MsgDidHit(FALSE)
                               /\ w[2] = MsgSunk("None")
                      /\ w[2] /= MsgSunk("None")
                            => /\ Contains(Fleet(p), w[2].s)
                               /\ ~Contains(Fleet(p)', w[2].s)
                      /\ shots'[p] = shots[p] \cup {aim}
         /\ (shots[p] /= {} /\ game'[p].board /= game[p].board)
                => ShipCells(Fleet(p)') \subseteq ShipCells(Fleet(p))
         /\ shots'[p] /= shots[p] => shots[p] \subseteq shots'[p]]_vars

\* a second shot at a struck Destroyer cell was answered as a miss
C27_Witness ==
    /\ ret.op = "receive" /\ ret.res = "Ok"
    /\ ret.pos = <<8, 4>> /\ ret.hit = "None"
    /\ FullFleet[<<8, 4>>] = "Destroyer"
    /\ Fleet(ret.p)[<<8, 4>>] = "Hit"
    /\ Contains(Fleet(ret.p), "Destroyer")

\* C28: in a session of workers every marker of a peer's opponent-knowledge
\* board is Hit if the opponent placed a ship cell at its coordinate and
\* Miss if it did not, whatever targets were chosen.
C28_MirroredViews ==
    WorkerSession =>
        \A p \in Peers :
            \A c \in DOMAIN Knowledge(p) :
                /\ (Knowledge(p)[c] = "Hit") <=> (c \in placed[Other(p)])
                /\ (Knowledge(p)[c] = "Miss") <=> (c \notin placed[Other(p)])

\* C29: every entry of a fleet board has its column and its row in 0..9,
\* whatever origins and orientations were passed to place_ship.
C29_CellsInsideGrid ==
    \A p \in Peers :
        \A c \in DOMAIN Fleet(p) : c[1] < Grid /\ c[2] < Grid

\* the place of a phase in the order game_flow goes through them
PhaseRank(ph) ==
    CASE ph.t = "Connecting" -> 0
      [] ph.t = "Placing" -> KindIndex(ph.k, 1)
      [] ph.t = "Playing" -> Len(ShipOrder) + 1
      [] ph.t = "Done" -> Len(ShipOrder) + 2

\* C30: when the front-end takes a NewPhase event from the mailbox, the
\* phase it reads from the shared game state is the phase the event
\* announces or, if the worker has moved on, a later one: the worker stored
\* the announced phase before the event could be taken.
C30_PhaseNotStale ==
    [][\A p \in Peers :
         (ui[p] = "recv" /\ Len(tx'[p]) < Len(tx[p]))
             => PhaseRank(game[p].phase) >= PhaseRank(Head(tx[p]).phase)]_vars

\* both workers have left ship_placement with their fleets placed
BothPlaced ==
    \A p \in Peers : pc[p] = "await_finished" \/ pc[p] \in PastBarrier

\* both game loops have exited: one worker sent Won(true), the other
\* Won(false), both stored Phase::Done and shut the stream down
GameOver ==
    /\ \A p \in Peers : pc[p] = "closed" /\ game[p].phase = DoneT
    /\ \E p \in Peers : outcome[p] = "won" /\ outcome[Other(p)] = "lost"

\* C31: in a session of two workers whose threads keep running and whose
\* front-ends keep working through the opponent's grid, once both fleets
\* are placed the game ends: both workers leave game_loop, store the Done
\* phase and shut the stream down, one having reported a win and the other
\* a loss. The loss is reported by the receiver in the step that writes
\* Finished, when its whole fleet is struck and the firer is inside the
\* exchange it opened; the win is reported by that firer when it reads this
\* Finished, as the last frame of the same exchange.
C31_GameTerminates ==
    /\ BothPlaced ~> GameOver
    /\ [][\A p \in Peers :
            /\ outcome'[p] /= outcome[p]
                 => pc[p] \in {"loop", "won"} /\ pc'[p] = "closed"
            /\ (pc[p] = "loop" /\ pc'[p] = "closed")
                 => /\ outcome'[p] = "lost"
                    /\ Lost(p)'
                    /\ Frame(p) = MsgFire(loc[Other(p)].aim)
                    /\ pc[Other(p)] = "didhit"
                    /\ Wrote(p)[3] = MsgFinished
            /\ (pc[p] = "won" /\ pc'[p] = "closed")
                 => /\ outcome'[p] = "won"
                    /\ outcome[Other(p)] = "lost"
                    /\ net[p] = <<MsgFinished>>
                    /\ loc[p].aim \in shots[Other(p)]]_vars

\* the client's last fleet cell has been struck: it has reported its loss
\* and left, the server has read DidHit and Sunk and is about to read
\* Finished
C31_Witness ==
    /\ BothPlaced
    /\ pc["cli"] = "closed" /\ outcome["cli"] = "lost"
    /\ pc["srv"] = "won" /\ outcome["srv"] = "none"
    /\ net["srv"] = <<MsgFinished>>

====
